---- MODULE Spec2Model ----
(***************************************************************************)
(* Model of scripts/plot_coverage.py: main() loads state/global_state.json *)
(* and metadata/*.json of a campaign directory, sorts the seed records by  *)
(* id and renders four plots from them.                                    *)
(*                                                                         *)
(* A JSON object is a function from the keys it carries to their values,   *)
(* so that dict.get(key, default) and dict[key] differ as they do in       *)
(* Python.  A file name is modelled by its rank in lexicographic order.    *)
(* A percentage bp / 100.0 is the exact quotient, kept as whole percent    *)
(* plus hundredths (the float is the double nearest to that quotient).     *)
(***************************************************************************)
EXTENDS Integers, Sequences, FiniteSets, TLC

\* Number of metadata/*.json files a campaign directory may hold.
MaxFiles == 2

FileNames == 1..MaxFiles

\* Sample values of the fields of a seed record.
IdValues == {0, 3}
CovValues == {1000, 7474}
DepthValues == {0, 1}
IncrVerdicts == {<<0, "BUG">>, <<250, "NORMAL">>}

\* Well-formed seed records: every field of the record is present.
FullRecords ==
    {[id |-> i, new_cov |-> c, cov_incr |-> p[1], depth |-> d, oracle_verdict |-> p[2]] :
        i \in IdValues, c \in CovValues, d \in DepthValues, p \in IncrVerdicts}

\* JSON objects that parse but lack a field.
PartialRecords ==
    { [new_cov |-> 5000, cov_incr |-> 250, depth |-> 1, oracle_verdict |-> "BUG"],
      [id |-> 3, depth |-> 0, oracle_verdict |-> "NORMAL"],
      [id |-> 0, new_cov |-> 1000, cov_incr |-> 0, oracle_verdict |-> "NORMAL"] }

\* What a metadata/*.json file may hold: text json.load rejects, JSON that is
\* not an object (a list, a number), or a JSON object.
SeedFileContents ==
    {[kind |-> "malformed"], [kind |-> "nonobject"]}
        \cup {[kind |-> "object", meta |-> m] : m \in FullRecords \cup PartialRecords}

\* What state/global_state.json may be.
GlobalMetas ==
    { [total_coverage |-> 7474, last_allocated_id |-> 4],
      [total_coverage |-> 1000],
      [last_allocated_id |-> 4] }

GlobalFileContents ==
    {[kind |-> "absent"], [kind |-> "unparsable"], [kind |-> "nonobject"]}
        \cup {[kind |-> "object", meta |-> m] : m \in GlobalMetas}

VARIABLES
    dataDirExists,  \* input: the --data-dir directory exists
    metaDirExists,  \* input: <data-dir>/metadata exists
    globalFile,     \* input: content of <data-dir>/state/global_state.json
    files,          \* input: file name -> content, the files of metadata/
    pc,             \* position of main()
    global_state,   \* main's global_state, once loaded
    raw,            \* load_seed_metadata's list before the sort
    filesRead,      \* metadata files opened so far, in enumeration order
    seeds,          \* main's seeds
    stderr,         \* lines written to sys.stderr
    stdout,         \* values main prints
    plots,          \* the figures saved, with the data drawn in each
    exitCode        \* process exit status, -1 while running

vars == <<dataDirExists, metaDirExists, globalFile, files, pc, global_state, raw,
          filesRead, seeds, stderr, stdout, plots, exitCode>>

inputs == <<dataDirExists, metaDirExists, globalFile, files>>

----------------------------------------------------------------------------
\* Helpers

\* dict.get(key, default)
Get(d, key, default) == IF key \in DOMAIN d THEN d[key] ELSE default

Range(s) == {s[i] : i \in DOMAIN s}

RECURSIVE MaxSeq(_)
MaxSeq(s) == IF Len(s) = 1 THEN s[1]
             ELSE LET m == MaxSeq(Tail(s)) IN IF s[1] > m THEN s[1] ELSE m

\* sorted(set(xs))
RECURSIVE SortedSet(_)
SortedSet(S) == IF S = {} THEN <<>>
                ELSE LET m == CHOOSE x \in S : \A y \in S : x <= y
                     IN <<m>> \o SortedSet(S \ {m})

\* xs.count(v)
Count(xs, v) == Cardinality({i \in DOMAIN xs : xs[i] = v})

\* Faulty variant: floor division (bp // 100) drops the hundredths.
basis_points_to_percent_floor(bp) == [whole |-> bp \div 100, hundredths |-> 0]

\* basis_points_to_percent: bp / 100.0
basis_points_to_percent(bp) == [whole |-> bp \div 100, hundredths |-> bp % 100]

IsPositive(pct) == pct.whole > 0 \/ (pct.whole = 0 /\ pct.hundredths > 0)

\* The key of load_seed_metadata's sort: x.get('id', 0)
SortKey(x) == Get(x, "id", 0)

\* list.sort(key=SortKey) is stable: equal keys keep their order in the list.
InsertStable(sorted, x) ==
    LET n == Cardinality({i \in DOMAIN sorted : SortKey(sorted[i]) <= SortKey(x)})
    IN SubSeq(sorted, 1, n) \o <<x>> \o SubSeq(sorted, n + 1, Len(sorted))

RECURSIVE SortById(_)
SortById(s) ==
    IF Len(s) = 0 THEN <<>>
    ELSE InsertStable(SortById(SubSeq(s, 1, Len(s) - 1)), s[Len(s)])

\* [s['id'] for s in seeds] raises KeyError unless every record carries an id.
HasAllIds(ss) == \A i \in DOMAIN ss : "id" \in DOMAIN ss[i]

seed_ids(ss) == [i \in DOMAIN ss |-> ss[i].id]
new_coverages(ss) == [i \in DOMAIN ss |-> basis_points_to_percent(Get(ss[i], "new_cov", 0))]
cov_increases(ss) == [i \in DOMAIN ss |-> basis_points_to_percent(Get(ss[i], "cov_incr", 0))]
depths(ss) == [i \in DOMAIN ss |-> Get(ss[i], "depth", 0)]

unique_depths(ss) == SortedSet(Range(depths(ss)))

\* Faulty variant: counts taken in unique_depths instead of depths.
depth_counts_of_unique(ss) ==
    LET u == unique_depths(ss) IN [k \in DOMAIN u |-> Count(u, u[k])]

depth_counts(ss) ==
    LET u == unique_depths(ss) IN [k \in DOMAIN u |-> Count(depths(ss), u[k])]

NotSaved == [saved |-> FALSE]
NoPlots == [growth |-> NotSaved, per_seed |-> NotSaved,
            lineage |-> NotSaved, dashboard |-> NotSaved]

Err(kind, file) == [kind |-> kind, file |-> file]

\* The process ends with status 1: sys.exit(1), or an exception nothing catches.
Abort(kind) ==
    /\ pc' = "done"
    /\ exitCode' = 1
    /\ stderr' = Append(stderr, Err(kind, 0))

----------------------------------------------------------------------------
Init ==
    /\ dataDirExists \in BOOLEAN
    /\ metaDirExists \in BOOLEAN
    /\ globalFile \in GlobalFileContents
    /\ files \in UNION {[S -> SeedFileContents] : S \in SUBSET FileNames}
    /\ (~dataDirExists => ~metaDirExists /\ globalFile.kind = "absent")
    /\ (~metaDirExists => DOMAIN files = {})
    /\ pc = "validate"
    /\ global_state = [loaded |-> FALSE]
    /\ raw = <<>>
    /\ filesRead = <<>>
    /\ seeds = <<>>
    /\ stderr = <<>>
    /\ stdout = <<>>
    /\ plots = NoPlots
    /\ exitCode = -1

\* main: "Validate input"
ValidateInput ==
    /\ pc = "validate"
    /\ IF dataDirExists
       THEN pc' = "load_global" /\ UNCHANGED <<exitCode, stderr>>
       ELSE Abort("data_dir_not_found")
    /\ UNCHANGED <<inputs, global_state, raw, filesRead, seeds, stdout, plots>>

\* Faulty variant: a global_state.json that does not parse is read as an empty record.
load_global_state_lenient ==
    /\ pc = "load_global"
    /\ IF globalFile.kind \in {"object", "unparsable"}
       THEN /\ global_state' = [loaded |-> TRUE,
                                meta |-> IF globalFile.kind = "object"
                                         THEN globalFile.meta
                                         ELSE [total_coverage |-> 0]]
            /\ pc' = "load_seeds"
            /\ UNCHANGED <<exitCode, stderr, stdout>>
       ELSE /\ Abort("global_state_not_found")
            /\ UNCHANGED <<global_state, stdout>>
    /\ UNCHANGED <<inputs, raw, filesRead, seeds, plots>>

\* main: "Load global state", with load_global_state
load_global_state ==
    /\ pc = "load_global"
    /\ IF globalFile.kind = "object"
       THEN /\ global_state' = [loaded |-> TRUE, meta |-> globalFile.meta]
            /\ stdout' = Append(stdout,
                    <<"total_coverage", Get(globalFile.meta, "total_coverage", 0),
                      basis_points_to_percent(Get(globalFile.meta, "total_coverage", 0))>>)
            /\ pc' = "load_seeds"
            /\ UNCHANGED <<exitCode, stderr>>
       ELSE /\ Abort(CASE globalFile.kind = "absent" -> "global_state_not_found"
                       [] globalFile.kind = "unparsable" -> "JSONDecodeError"
                       [] OTHER -> "AttributeError")
            /\ UNCHANGED <<global_state, stdout>>
    /\ UNCHANGED <<inputs, raw, filesRead, seeds, plots>>

\* load_seed_metadata: the metadata directory is missing
load_seed_metadata_no_dir ==
    /\ pc = "load_seeds"
    /\ ~metaDirExists
    /\ Abort("metadata_dir_not_found")
    /\ UNCHANGED <<inputs, global_state, raw, filesRead, seeds, stdout, plots>>

\* Faulty variant: a file that does not parse is skipped without a warning.
load_seed_metadata_read_silent(f) ==
    /\ pc = "load_seeds"
    /\ metaDirExists
    /\ f \in DOMAIN files \ Range(filesRead)
    /\ filesRead' = Append(filesRead, f)
    /\ raw' = IF files[f].kind = "malformed" THEN raw ELSE Append(raw, files[f])
    /\ UNCHANGED <<inputs, pc, global_state, seeds, stdout, stderr, exitCode, plots>>

\* load_seed_metadata: one iteration of the loop over metadata_dir.glob("*.json"),
\* which yields the files in an order the file system chooses.
load_seed_metadata_read(f) ==
    /\ pc = "load_seeds"
    /\ metaDirExists
    /\ f \in DOMAIN files \ Range(filesRead)
    /\ filesRead' = Append(filesRead, f)
    /\ IF files[f].kind = "malformed"
       THEN /\ stderr' = Append(stderr, Err("parse_warning", f))
            /\ UNCHANGED raw
       ELSE /\ raw' = Append(raw, files[f])
            /\ UNCHANGED stderr
    /\ UNCHANGED <<inputs, pc, global_state, seeds, stdout, exitCode, plots>>

\* load_seed_metadata: the sort that ends it, and main's "Found ... files"
load_seed_metadata_sort ==
    /\ pc = "load_seeds"
    /\ metaDirExists
    /\ Range(filesRead) = DOMAIN files
    /\ IF \E i \in DOMAIN raw : raw[i].kind = "nonobject"
       THEN /\ Abort("AttributeError")
            /\ UNCHANGED <<seeds, stdout>>
       ELSE /\ seeds' = SortById([i \in DOMAIN raw |-> raw[i].meta])
            /\ stdout' = Append(stdout, <<"found", Len(raw)>>)
            /\ pc' = "check_empty"
            /\ UNCHANGED <<exitCode, stderr>>
    /\ UNCHANGED <<inputs, global_state, raw, filesRead, plots>>

\* Faulty variant: the empty check is dropped.
CheckEmpty_Dropped ==
    /\ pc = "check_empty"
    /\ pc' = "summary"
    /\ UNCHANGED <<inputs, global_state, raw, filesRead, seeds, stdout, plots,
                   exitCode, stderr>>

\* main: "if not seeds"
CheckEmpty ==
    /\ pc = "check_empty"
    /\ IF Len(seeds) = 0
       THEN Abort("no_seed_metadata")
       ELSE pc' = "summary" /\ UNCHANGED <<exitCode, stderr>>
    /\ UNCHANGED <<inputs, global_state, raw, filesRead, seeds, stdout, plots>>

\* main: "Summary"
Summary ==
    /\ pc = "summary"
    /\ stdout' = Append(stdout,
            <<"final_coverage",
              basis_points_to_percent(IF Len(seeds) > 0
                                   THEN Get(seeds[Len(seeds)], "new_cov", 0) ELSE 0)>>)
    /\ pc' = "plot_growth"
    /\ UNCHANGED <<inputs, global_state, raw, filesRead, seeds, stderr, plots, exitCode>>

\* plot_coverage_over_seeds
GrowthFigure(ss) ==
    [saved |-> TRUE, seed_ids |-> seed_ids(ss), new_coverages |-> new_coverages(ss)]

plot_coverage_over_seeds ==
    /\ pc = "plot_growth"
    /\ IF Len(seeds) = 0
       THEN /\ stderr' = Append(stderr, Err("no_seeds_to_plot", 0))
            /\ pc' = "plot_per_seed"
            /\ UNCHANGED <<plots, exitCode>>
       ELSE IF ~HasAllIds(seeds)
       THEN Abort("KeyError") /\ UNCHANGED plots
       ELSE /\ plots' = [plots EXCEPT !.growth = GrowthFigure(seeds)]
            /\ pc' = "plot_per_seed"
            /\ UNCHANGED <<exitCode, stderr>>
    /\ UNCHANGED <<inputs, global_state, raw, filesRead, seeds, stdout>>

\* plot_coverage_increase_per_seed
PerSeedFigure(ss) ==
    [saved |-> TRUE, seed_ids |-> seed_ids(ss), cov_increases |-> cov_increases(ss),
     nonzero_seeds |-> Cardinality({i \in DOMAIN ss : IsPositive(cov_increases(ss)[i])})]

plot_coverage_increase_per_seed ==
    /\ pc = "plot_per_seed"
    /\ IF Len(seeds) = 0
       THEN /\ stderr' = Append(stderr, Err("no_seeds_to_plot", 0))
            /\ pc' = "plot_lineage"
            /\ UNCHANGED <<plots, exitCode>>
       ELSE IF ~HasAllIds(seeds)
       THEN Abort("KeyError") /\ UNCHANGED plots
       ELSE /\ plots' = [plots EXCEPT !.per_seed = PerSeedFigure(seeds)]
            /\ pc' = "plot_lineage"
            /\ UNCHANGED <<exitCode, stderr>>
    /\ UNCHANGED <<inputs, global_state, raw, filesRead, seeds, stdout>>

\* plot_seed_lineage
LineageFigure(ss) ==
    [saved |-> TRUE, unique_depths |-> unique_depths(ss), depth_counts |-> depth_counts(ss)]

plot_seed_lineage ==
    /\ pc = "plot_lineage"
    /\ IF Len(seeds) = 0
       THEN /\ stderr' = Append(stderr, Err("no_seeds_to_plot", 0))
            /\ UNCHANGED plots
       ELSE /\ plots' = [plots EXCEPT !.lineage = LineageFigure(seeds)]
            /\ UNCHANGED stderr
    /\ pc' = "plot_dashboard"
    /\ UNCHANGED <<inputs, global_state, raw, filesRead, seeds, stdout, exitCode>>

\* plot_summary_dashboard
DashboardFigure(gs, ss) ==
    [saved |-> TRUE,
     seed_ids |-> seed_ids(ss),
     new_coverages |-> new_coverages(ss),
     cov_increases |-> cov_increases(ss),
     unique_depths |-> unique_depths(ss),
     depth_counts |-> depth_counts(ss),
     total_seeds |-> Get(gs, "last_allocated_id", Len(ss)),
     total_cov_pct |-> basis_points_to_percent(Get(gs, "total_coverage", 0)),
     nonzero_seeds |-> Cardinality({i \in DOMAIN ss : IsPositive(cov_increases(ss)[i])}),
     max_depth |-> IF Len(ss) > 0 THEN MaxSeq(depths(ss)) ELSE 0,
     initial_seeds |-> Cardinality({i \in DOMAIN ss : depths(ss)[i] = 0}),
     mutated_seeds |-> Cardinality({i \in DOMAIN ss : depths(ss)[i] > 0})]

\* main: the dashboard, then "All plots generated successfully!" and the return
plot_summary_dashboard ==
    /\ pc = "plot_dashboard"
    /\ IF ~HasAllIds(seeds)
       THEN Abort("KeyError") /\ UNCHANGED <<plots, stdout>>
       ELSE /\ plots' = [plots EXCEPT !.dashboard = DashboardFigure(global_state.meta, seeds)]
            /\ stdout' = Append(stdout, <<"all_plots_generated">>)
            /\ pc' = "done"
            /\ exitCode' = 0
            /\ UNCHANGED stderr
    /\ UNCHANGED <<inputs, global_state, raw, filesRead, seeds>>

Next ==
    \/ ValidateInput
    \/ load_global_state
    \/ load_seed_metadata_no_dir
    \/ \E f \in FileNames : load_seed_metadata_read(f)
    \/ load_seed_metadata_sort
    \/ CheckEmpty
    \/ Summary
    \/ plot_coverage_over_seeds
    \/ plot_coverage_increase_per_seed
    \/ plot_seed_lineage
    \/ plot_summary_dashboard

Spec == Init /\ [][Next]_vars

----------------------------------------------------------------------------
\* Vocabulary of the properties

RECURSIVE SumSeq(_)
SumSeq(s) == IF Len(s) = 0 THEN 0 ELSE s[1] + SumSeq(Tail(s))

RecordFields == {"id", "new_cov", "cov_incr", "depth", "oracle_verdict"}

\* The campaign directory, its metadata directory and a readable global state.
InputsOk == dataDirExists /\ metaDirExists /\ globalFile.kind = "object"

\* load_seed_metadata has returned its sorted list to main.
Loaded == \E i \in DOMAIN stdout : stdout[i][1] = "found"

NoneSaved == \A p \in DOMAIN plots : ~plots[p].saved
AllSaved == \A p \in DOMAIN plots : plots[p].saved

WellFormed(c) == c.kind = "object" /\ DOMAIN c.meta = RecordFields
WellFormedFiles == {f \in DOMAIN files : WellFormed(files[f])}
MalformedFiles == {f \in DOMAIN files : files[f].kind = "malformed"}
OnlyWellFormedOrMalformed == DOMAIN files = WellFormedFiles \cup MalformedFiles

ParseWarnings == {i \in DOMAIN stderr : stderr[i].kind = "parse_warning"}

\* The files' records in ascending id, ties broken by file name.
RECURSIVE OrderByIdThenName(_)
OrderByIdThenName(S) ==
    IF S = {} THEN <<>>
    ELSE LET f == CHOOSE g \in S : \A h \in S :
                      \/ files[g].meta.id < files[h].meta.id
                      \/ files[g].meta.id = files[h].meta.id /\ g <= h
         IN <<files[f].meta>> \o OrderByIdThenName(S \ {f})

----------------------------------------------------------------------------
\* C1: when global_state.json is absent or does not parse, the run ends with
\* exit status 1, saves no plot, and has opened no metadata file.
C1_GlobalStateMissingIsFatal ==
    globalFile.kind \in {"absent", "unparsable"} =>
        /\ filesRead = <<>>
        /\ raw = <<>>
        /\ NoneSaved
        /\ pc \in {"validate", "load_global", "done"}
        /\ (pc = "done" <=> exitCode = 1)
        /\ exitCode # 0

C1_Witness ==
    /\ pc = "done"
    /\ exitCode = 1
    /\ dataDirExists
    /\ globalFile.kind = "unparsable"
    /\ DOMAIN files # {}

\* C2 as stated: for every load set of N well-formed and k malformed files the
\* load yields the N records and k warnings and the run succeeds.
C2_AlwaysSucceeds ==
    (InputsOk /\ OnlyWellFormedOrMalformed /\ MalformedFiles # {} /\ pc = "done") =>
        /\ Len(seeds) = Cardinality(WellFormedFiles)
        /\ Cardinality(ParseWarnings) = Cardinality(MalformedFiles)
        /\ exitCode = 0

\* C2 amended: for N well-formed and k malformed files the load yields exactly
\* the N well-formed records and one parse warning per malformed file, and the
\* run succeeds with all plots when N >= 1 (with N = 0 it ends with status 1).
C2_MalformedFilesSkipped ==
    (InputsOk /\ OnlyWellFormedOrMalformed) =>
        /\ Loaded =>
            /\ Len(seeds) = Cardinality(WellFormedFiles)
            /\ \A i \in DOMAIN seeds : DOMAIN seeds[i] = RecordFields
            /\ \A m \in Range(seeds) \cup {files[f].meta : f \in WellFormedFiles} :
                  Count(seeds, m) =
                      Cardinality({f \in WellFormedFiles : files[f].meta = m})
            /\ Cardinality(ParseWarnings) = Cardinality(MalformedFiles)
            /\ \A f \in MalformedFiles :
                  Cardinality({i \in ParseWarnings : stderr[i].file = f}) = 1
        /\ pc = "done" =>
            /\ exitCode = (IF Cardinality(WellFormedFiles) >= 1 THEN 0 ELSE 1)
            /\ Cardinality(WellFormedFiles) >= 1 => AllSaved

C2_Witness ==
    /\ InputsOk
    /\ OnlyWellFormedOrMalformed
    /\ Cardinality(MalformedFiles) = 1
    /\ Cardinality(WellFormedFiles) >= 1
    /\ pc = "done"
    /\ exitCode = 0
    /\ Len(seeds) = Cardinality(WellFormedFiles)

\* C3: the validated sequence never holds two records with the same id.
C3_NoDuplicateIds ==
    (Loaded /\ DOMAIN files = WellFormedFiles) =>
        \A i, j \in DOMAIN seeds : i # j => seeds[i].id # seeds[j].id

\* C4: a record that parses but has no id never appears in the ordered
\* sequence, and does not stop the run when a well-formed record is present.
C4_MissingIdDiscarded ==
    /\ Loaded => HasAllIds(seeds)
    /\ (InputsOk /\ pc = "done" /\ WellFormedFiles # {}
            /\ \A f \in DOMAIN files : files[f].kind = "object")
        => exitCode = 0

\* C5: the sequence handed on is in ascending id with ties broken by file
\* name, whatever order the directory enumerates its files in.
C5_OrderIndependentOfEnumeration ==
    (Loaded /\ DOMAIN files = WellFormedFiles)
        => seeds = OrderByIdThenName(DOMAIN files)

\* C6: the output carries a cumulative bug series with one value per record,
\* non-decreasing, stepping by 1 exactly at the records whose verdict is BUG,
\* and ending at the number of such records, which is total_bugs.
C6_CumulativeBugSeries ==
    (pc = "done" /\ exitCode = 0 /\ DOMAIN files = WellFormedFiles) =>
        \E p \in DOMAIN plots :
            /\ {"bug_series", "total_bugs"} \subseteq DOMAIN plots[p]
            /\ LET b == plots[p].bug_series
                   IsBug(i) == Get(seeds[i], "oracle_verdict", "NORMAL") = "BUG"
               IN /\ Len(b) = Len(seeds)
                  /\ \A i \in DOMAIN b :
                        b[i] = (IF i = 1 THEN 0 ELSE b[i - 1])
                                  + (IF IsBug(i) THEN 1 ELSE 0)
                  /\ plots[p].total_bugs
                        = Cardinality({i \in DOMAIN seeds : IsBug(i)})

\* C7: every figure that draws coverage growth holds, for each record of the
\* ordered sequence and in its order, the pair (id, new_cov / 100).
C7_CoverageSeries ==
    \A p \in {"growth", "dashboard"} :
        plots[p].saved =>
            /\ Len(plots[p].seed_ids) = Len(seeds)
            /\ Len(plots[p].new_coverages) = Len(seeds)
            /\ \A i \in DOMAIN seeds :
                  /\ plots[p].seed_ids[i] = seeds[i].id
                  /\ "new_cov" \in DOMAIN seeds[i] =>
                        /\ plots[p].new_coverages[i].hundredths \in 0..99
                        /\ 100 * plots[p].new_coverages[i].whole
                              + plots[p].new_coverages[i].hundredths
                           = seeds[i].new_cov

C7_Witness ==
    /\ plots.growth.saved
    /\ Len(seeds) = 2
    /\ seeds[1].id = 0 /\ seeds[2].id = 3
    /\ "new_cov" \in DOMAIN seeds[1] /\ seeds[1].new_cov = 1000
    /\ "new_cov" \in DOMAIN seeds[2] /\ seeds[2].new_cov = 7474
    /\ Get(seeds[2], "cov_incr", 0) = 0
    /\ plots.growth.seed_ids = <<0, 3>>
    /\ plots.growth.new_coverages =
          <<[whole |-> 10, hundredths |-> 0], [whole |-> 74, hundredths |-> 74]>>

\* C8: the depth histogram maps each depth occurring among the records to the
\* number of records with that depth, and its counts sum to the number of
\* records.
C8_DepthHistogram ==
    \A p \in {"lineage", "dashboard"} :
        plots[p].saved =>
            LET u == plots[p].unique_depths
                c == plots[p].depth_counts
                depthOf(i) == IF "depth" \in DOMAIN seeds[i] THEN seeds[i].depth ELSE 0
            IN /\ Len(u) = Len(c)
               /\ Range(u) = {depthOf(i) : i \in DOMAIN seeds}
               /\ \A k \in DOMAIN u : \A l \in DOMAIN u : k < l => u[k] < u[l]
               /\ \A k \in DOMAIN u :
                     c[k] = Cardinality({i \in DOMAIN seeds : depthOf(i) = u[k]})
               /\ SumSeq(c) = Len(seeds)

C8_Witness ==
    /\ plots.lineage.saved
    /\ plots.dashboard.saved
    /\ Len(seeds) >= 2
    /\ \E k \in DOMAIN plots.lineage.depth_counts :
          plots.lineage.depth_counts[k] >= 2

\* C9: when no usable seed record remains after loading, the run ends with
\* exit status 1 and no plot is saved at any point of it.
C9_NoRecordsIsFatal ==
    /\ (Loaded /\ Len(seeds) = 0) =>
          /\ NoneSaved
          /\ pc \in {"check_empty", "done"}
          /\ (pc = "done" <=> exitCode = 1)
          /\ exitCode # 0
    /\ (InputsOk /\ DOMAIN files = MalformedFiles) =>
          /\ NoneSaved
          /\ exitCode # 0
          /\ pc = "done" => (exitCode = 1 /\ Loaded)

C9_Witness ==
    /\ pc = "done"
    /\ exitCode = 1
    /\ Loaded
    /\ Len(seeds) = 0
    /\ DOMAIN files # {}
    /\ Cardinality(ParseWarnings) = Cardinality(DOMAIN files)

\* C10: when the last record's coverage differs from
\* global_state.total_coverage, a ConsistencyMismatch warning carrying both
\* values is recorded, and the run still saves its plots and exits 0.
C10_ConsistencyMismatchWarned ==
    (/\ pc = "done"
     /\ Loaded
     /\ DOMAIN files = WellFormedFiles
     /\ Len(seeds) > 0
     /\ "total_coverage" \in DOMAIN global_state.meta
     /\ seeds[Len(seeds)].new_cov # global_state.meta.total_coverage)
        => /\ exitCode = 0
           /\ AllSaved
           /\ \E i \in DOMAIN stderr : stderr[i].kind = "ConsistencyMismatch"

====
